---- MODULE Spec2Model ----
(***************************************************************************)
(* Child-process lifecycle of SDL (SDL_CreateProcess, the stream adapters, *)
(* SDL_KillProcess, SDL_WaitProcess, SDL_DestroyProcess), POSIX and        *)
(* Windows implementations, over a small model of the operating system:   *)
(* a descriptor/handle table per process, pipes with bounded buffers, and  *)
(* a process table with pid reuse.                                         *)
(***************************************************************************)
EXTENDS Integers, Sequences, FiniteSets, TLC

\* ------------------------------------------------------------- bounds
MaxProcs == 2
MaxPids == 2
MaxFd == 8
PipeCap == 2
MaxBytes == 3
\* The caller stops launching after this many launches have failed.
MaxFaults == 1
\* The longest argument, in characters, and the longest list, in entries.
MaxArgLen == 2
MaxArgs == 2

\* ------------------------------------------------ program constants
STDIN_FILENO == 0
STDOUT_FILENO == 1
STDERR_FILENO == 2
SIGKILL == 9
SIGTERM == 15
SIGPIPE == 13
SIGSEGV == 11
STILL_ACTIVE == 259
InvalidFd == -1
NullHandle == 0
Uninit == -2

SDL_PROCESS_STDIN == "STDIN"
SDL_PROCESS_STDOUT == "STDOUT"
SDL_PROCESS_STDERR == "STDERR"
SDL_PROCESS_STDERR_TO_STDOUT == "STDERR_TO_STDOUT"

Platforms == {"posix", "windows"}
Streams == {"stdin", "stdout", "stderr"}

\* The flag words SDL_CreateProcess is called with.
F_NONE == {}
F_IN == {SDL_PROCESS_STDIN}
F_IN_OUT == {SDL_PROCESS_STDIN, SDL_PROCESS_STDOUT}
F_ALL == {SDL_PROCESS_STDIN, SDL_PROCESS_STDOUT, SDL_PROCESS_STDERR}
F_MERGE == {SDL_PROCESS_STDOUT, SDL_PROCESS_STDERR, SDL_PROCESS_STDERR_TO_STDOUT}

ExitCodes == {0, SIGKILL}

\* One call of SDL_CreateProcess: args as the caller passes it (a null pointer, an
\* empty list, a path that names no executable, sdlsubprocess --stdin-to-stdout,
\* sdlsubprocess --exit-code c), env (null or a list), the flags, and the resource
\* the call finds exhausted, if any.
Launch(args, env, code, flags, fail) ==
    [args |-> args, env |-> env, code |-> code, flags |-> flags, fail |-> fail]

Launches ==
    {Launch("null", "null", 0, F_IN_OUT, "none"),
     Launch("empty", "set", 0, F_NONE, "none"),
     Launch("missing", "null", 0, F_IN_OUT, "none"),
     Launch("missing", "set", 0, F_IN_OUT, "none")}
    \cup {Launch("exit", "null", c, F_NONE, "none") : c \in ExitCodes}
    \cup {Launch("echo", "null", 0, f, "none") : f \in {F_IN, F_IN_OUT, F_ALL, F_MERGE}}
    \cup {Launch("echo", "set", 0, F_IN_OUT, x) :
             x \in {"malloc", "props", "join", "pipe_stdin", "pipe_stdout", "sethandle",
                    "fork", "openio", "dupstrlist"}}
    \cup {Launch("echo", "null", 0, F_ALL, x) : x \in {"pipe_stderr", "fork"}}
    \cup {Launch("echo", "null", 0, F_MERGE, "fork")}

Handles == 1..MaxProcs
Pids == 1..MaxPids
FdNum == 0..MaxFd
PipeFds == (STDERR_FILENO + 1)..MaxFd
PipeIds == 1..(MaxFd * (MaxPids + 1))

\* ------------------------------------------------ descriptor tables
\* An entry of a descriptor (handle) table.
NoFd == [pipe |-> 0, end |-> "none", inh |-> FALSE]
StdFd == [pipe |-> 0, end |-> "std", inh |-> TRUE]
PipeEnd(p, e, i) == [pipe |-> p, end |-> e, inh |-> i]

StdTable == [f \in FdNum |-> IF f <= STDERR_FILENO THEN StdFd ELSE NoFd]
EmptyTable == [f \in FdNum |-> NoFd]

IsOpen(t, f) == f \in FdNum /\ t[f] # NoFd

\* close(fd) / CloseHandle(h): releases the entry; an invalid value is an error
\* that changes nothing.
CloseFd(t, f) == IF IsOpen(t, f) THEN [t EXCEPT ![f] = NoFd] ELSE t

RECURSIVE CloseAll(_, _)
CloseAll(t, fs) == IF fs = <<>> THEN t ELSE CloseAll(CloseFd(t, Head(fs)), Tail(fs))

\* dup2(old, new): new becomes a copy of old; a bad old descriptor is an error.
Dup2(t, old, new) == IF IsOpen(t, old) THEN [t EXCEPT ![new] = t[old]] ELSE t

FreeFds(t) == {f \in PipeFds : t[f] = NoFd}
LowestFree(t) == CHOOSE f \in FreeFds(t) : \A g \in FreeFds(t) : f <= g

PipesIn(t) == {t[f].pipe : f \in {g \in FdNum : t[g].pipe # 0}}
HoldsEnd(t, p, e) == \E f \in FdNum : t[f].pipe = p /\ t[f].end = e


\* A pipe as the handle stores it: int stdin_pipe[2] / HANDLE stdin_pipe[2], index
\* READ_END in r and WRITE_END in w.
Pair(r, w) == [r |-> r, w |-> w]
\* Storage from SDL_malloc is not initialised; SDL_calloc zeroes it.
UninitPair == Pair(Uninit, Uninit)
NullPair == Pair(NullHandle, NullHandle)

\* The values an uninitialised int may hold where the code reads it.
Garbage == {InvalidFd} \cup PipeFds

HasFlag(flags, f) == f \in flags
\* (flags & SDL_PROCESS_STDERR_TO_STDOUT) == SDL_PROCESS_STDERR_TO_STDOUT
ErrToOut(flags) == SDL_PROCESS_STDERR_TO_STDOUT \in flags

\* ------------------------------------------------------------ state
VARIABLES
    platform,   \* which implementation is compiled in
    fdt,        \* the parent's descriptor / handle table
    pipebuf,    \* the bytes in flight in each pipe
    proc,       \* the SDL_Process objects, by slot
    child,      \* the operating system's process table
    blocked,    \* the blocking call the parent is in, if any
    parent,     \* "running", or "killed" by a signal
    wlog,       \* per handle: the bytes the stdin adapter has accepted
    rlog,       \* per handle: the bytes read from the stdout adapter
    last,       \* the call that returned last, and what it returned
    faults      \* how many launches have failed so far

vars == <<platform, fdt, pipebuf, proc, child, blocked, parent, wlog, rlog, last, faults>>

NoStatus == [kind |-> "none", val |-> 0]
Exited(c) == [kind |-> "exit", val |-> c]
Signaled(s) == [kind |-> "signal", val |-> s]

\* struct SDL_Process, with the adapters created for it (ios) and the entries of
\* its property bag (props). launch and killed are history: what the handle was
\* launched with, and whether a forced kill of its running child has succeeded
\* since the last wait that returned 1.
NoProc ==
    [live |-> FALSE, pid |-> 0, stdin_pipe |-> NullPair, stdout_pipe |-> NullPair,
     stderr_pipe |-> NullPair, flags |-> {}, props |-> {}, ios |-> {},
     launch |-> Launch("none", "null", 0, {}, "none"), killed |-> FALSE]

NoChild ==
    [st |-> "free", prog |-> "none", code |-> 0, env |-> "null", flags |-> {},
     stdin_pipe |-> NullPair, stdout_pipe |-> NullPair, stderr_pipe |-> NullPair,
     dupfail |-> FALSE, fdt |-> EmptyTable, status |-> NoStatus, sig |-> 0,
     own |-> {}, held |-> FALSE, hold |-> <<>>, extra |-> {}]

NoCall == [op |-> "none", h |-> 0, stream |-> "none", n |-> 0, done |-> 0]

NoLast ==
    [op |-> "none", h |-> 0, ret |-> 0, code |-> 0, stream |-> "none", n |-> 0,
     status |-> "ok", flags |-> {}, args |-> "none", created |-> {}, closes |-> <<>>,
     pid |-> 0, leaked |-> {}, err |-> FALSE, stored |-> FALSE, block |-> FALSE,
     was |-> "none", oob |-> FALSE]

Init ==
    /\ platform \in Platforms
    /\ fdt = StdTable
    /\ pipebuf = [p \in PipeIds |-> <<>>]
    /\ proc = [h \in Handles |-> NoProc]
    /\ child = [c \in Pids |-> NoChild]
    /\ blocked = NoCall
    /\ parent = "running"
    /\ wlog = [h \in Handles |-> <<>>]
    /\ rlog = [h \in Handles |-> <<>>]
    /\ last = NoLast
    /\ faults = 0

\* What a child holds: before exec the table it was forked with; after exec its
\* descriptors 0, 1, 2 in fdt and, in extra, the other pipe ends it inherited (their
\* numbers no longer matter to anyone).
ChildPipes(ch) == PipesIn(ch.fdt) \cup {e.pipe : e \in ch.extra}
ChildHolds(ch, p, e) == HoldsEnd(ch.fdt, p, e) \/ [pipe |-> p, end |-> e] \in ch.extra
StdOnly(t) == [f \in FdNum |-> IF f <= STDERR_FILENO THEN t[f] ELSE NoFd]
Extras(t) == {[pipe |-> t[f].pipe, end |-> t[f].end] : f \in {g \in PipeFds : t[g] # NoFd}}

\* Pipes some process still refers to.
LivePipes == PipesIn(fdt) \cup UNION {ChildPipes(child[c]) : c \in Pids}
FreshPipe(used) == CHOOSE p \in PipeIds \ used : \A q \in PipeIds \ used : p <= q

\* pipe(fds) / CreatePipe(&r, &w, &sa, 0): the two lowest free table entries become
\* the read and the write end of a new pipe.
CanPipe(t) == Cardinality(FreeFds(t)) >= 2
MkPipe(t, used) ==
    LET p == FreshPipe(used)
        r == LowestFree(t)
        t1 == [t EXCEPT ![r] = PipeEnd(p, "r", TRUE)]
        w == LowestFree(t1)
    IN [t |-> [t1 EXCEPT ![w] = PipeEnd(p, "w", TRUE)], pair |-> Pair(r, w), p |-> p]

FreeHandles == {h \in Handles : ~proc[h].live}
FreePids == {c \in Pids : child[c].st = "free"}
\* The process id a new child gets: ids are names, the lowest free one is given.
NewPid == CHOOSE c \in FreePids : \A d \in FreePids : c <= d

\* ------------------------------------------- POSIX: SDL_CreateProcess
\* The pipe() calls of SDL_CreateProcess, in order, with the rollback each failure
\* path performs. stage names the call that failed ("" when none did).
PosixPipe(want, ok, t, used) ==
    IF want /\ ok THEN MkPipe(t, used) ELSE [t |-> t, pair |-> UninitPair, p |-> 0]

WantErrPipe(flags) == HasFlag(flags, SDL_PROCESS_STDERR) /\ ~ErrToOut(flags)
PairFds(want, pair) == IF want THEN <<pair.r, pair.w>> ELSE <<>>

\* a, b, c: what the pipe() for stdin, stdout, stderr gave (p = 0: no pipe).
PosixPipesOf(flags, a, b, c) ==
    IF HasFlag(flags, SDL_PROCESS_STDIN) /\ a.p = 0 THEN
        [stage |-> "pipe_stdin", t |-> a.t, closes |-> <<>>, created |-> {},
         in |-> UninitPair, out |-> UninitPair, err |-> UninitPair]
    ELSE IF HasFlag(flags, SDL_PROCESS_STDOUT) /\ b.p = 0 THEN
        [stage |-> "pipe_stdout",
         t |-> CloseAll(b.t, PairFds(HasFlag(flags, SDL_PROCESS_STDIN), a.pair)),
         closes |-> PairFds(HasFlag(flags, SDL_PROCESS_STDIN), a.pair),
         created |-> {a.p} \ {0},
         in |-> a.pair, out |-> UninitPair, err |-> UninitPair]
    ELSE IF WantErrPipe(flags) /\ c.p = 0 THEN
        [stage |-> "pipe_stderr",
         t |-> CloseAll(c.t, PairFds(HasFlag(flags, SDL_PROCESS_STDIN), a.pair)
                             \o PairFds(HasFlag(flags, SDL_PROCESS_STDOUT), b.pair)),
         closes |-> PairFds(HasFlag(flags, SDL_PROCESS_STDIN), a.pair)
                    \o PairFds(HasFlag(flags, SDL_PROCESS_STDOUT), b.pair),
         created |-> {a.p, b.p} \ {0},
         in |-> a.pair, out |-> b.pair, err |-> UninitPair]
    ELSE
        [stage |-> "", t |-> c.t, closes |-> <<>>, created |-> {a.p, b.p, c.p} \ {0},
         in |-> a.pair, out |-> b.pair, err |-> c.pair]

PosixPipesErr(flags, fail, a, b) ==
    PosixPipesOf(flags, a, b,
                 PosixPipe(WantErrPipe(flags), CanPipe(b.t) /\ fail # "pipe_stderr",
                           b.t, LivePipes \cup {a.p, b.p}))

PosixPipesOut(flags, fail, a) ==
    PosixPipesErr(flags, fail, a,
                  PosixPipe(HasFlag(flags, SDL_PROCESS_STDOUT),
                            CanPipe(a.t) /\ fail # "pipe_stdout",
                            a.t, LivePipes \cup {a.p}))

PosixPipes(flags, fail) ==
    PosixPipesOut(flags, fail,
                  PosixPipe(HasFlag(flags, SDL_PROCESS_STDIN),
                            CanPipe(fdt) /\ fail # "pipe_stdin", fdt, LivePipes))

\* A fork() failure path that forgets the write end of the stdout pipe.
ForkFailClosesNoStdoutWrite(flags, ps, g) ==
    (IF HasFlag(flags, SDL_PROCESS_STDIN) THEN <<ps.in.r, ps.in.w>> ELSE <<>>)
    \o (IF HasFlag(flags, SDL_PROCESS_STDOUT) THEN <<ps.out.r>> ELSE <<>>)
    \o (IF HasFlag(flags, SDL_PROCESS_STDERR)
        THEN (IF ps.err = UninitPair THEN <<g.r, g.w>> ELSE <<ps.err.r, ps.err.w>>)
        ELSE <<>>)

\* The descriptors the fork() failure path closes: the stderr pair whenever
\* SDL_PROCESS_STDERR is set, also when no stderr pipe was created (the pair then
\* holds whatever the allocation held: g).
ForkFailCloses(flags, ps, g) ==
    (IF HasFlag(flags, SDL_PROCESS_STDIN) THEN <<ps.in.r, ps.in.w>> ELSE <<>>)
    \o (IF HasFlag(flags, SDL_PROCESS_STDOUT) THEN <<ps.out.r, ps.out.w>> ELSE <<>>)
    \o (IF HasFlag(flags, SDL_PROCESS_STDERR)
        THEN (IF ps.err = UninitPair THEN <<g.r, g.w>> ELSE <<ps.err.r, ps.err.w>>)
        ELSE <<>>)

\* A parent branch that keeps the write end of the stdout pipe open.
PosixParentClosesNoStdout(flags, ps) ==
    (IF HasFlag(flags, SDL_PROCESS_STDIN) THEN <<ps.in.r>> ELSE <<>>)
    \o (IF HasFlag(flags, SDL_PROCESS_STDERR) /\ ~ErrToOut(flags) THEN <<ps.err.w>> ELSE <<>>)

\* The parent branch after fork(): per redirected stream SDL_OpenIO, then
\* SDL_SetPointerProperty, then close() of the child-side end.
PosixParentCloses(flags, ps) ==
    (IF HasFlag(flags, SDL_PROCESS_STDIN) THEN <<ps.in.r>> ELSE <<>>)
    \o (IF HasFlag(flags, SDL_PROCESS_STDOUT) THEN <<ps.out.w>> ELSE <<>>)
    \o (IF HasFlag(flags, SDL_PROCESS_STDERR) /\ ~ErrToOut(flags) THEN <<ps.err.w>> ELSE <<>>)

\* A parent branch that registers an adapter for every stream, requested or not.
AdapterStreamsAll(flags) == Streams

\* The streams that get an adapter.
AdapterStreams(flags) ==
    {s \in Streams :
        \/ s = "stdin" /\ HasFlag(flags, SDL_PROCESS_STDIN)
        \/ s = "stdout" /\ HasFlag(flags, SDL_PROCESS_STDOUT)
        \/ s = "stderr" /\ HasFlag(flags, SDL_PROCESS_STDERR) /\ ~ErrToOut(flags)}

\* A pipe no process refers to any more is gone, and its bytes with it.
CleanBuf(pb, ft, ch) ==
    IF \A p \in PipeIds : pb[p] = <<>> THEN pb
    ELSE LET live == PipesIn(ft) \cup UNION {ChildPipes(ch[c]) : c \in Pids}
         IN [p \in PipeIds |-> IF p \in live THEN pb[p] ELSE <<>>]

Idle == parent = "running" /\ blocked = NoCall

CreateFailed(args, flags, t, created, closes, leaked) ==
    /\ fdt' = t
    /\ pipebuf' = CleanBuf(pipebuf, t, child)
    /\ last' = [NoLast EXCEPT !.op = "create", !.ret = 0, !.args = args, !.flags = flags,
                              !.created = created, !.closes = closes, !.leaked = leaked,
                              !.err = TRUE]
    /\ faults' = faults + 1
    /\ UNCHANGED <<platform, proc, child, blocked, parent, wlog, rlog>>

\* A start of SDL_CreateProcess that does not test the result of
\* SDL_CreateProperties.
PosixFailsEarlyNoProps(L) == L.args = "null" \/ L.fail = "malloc"

\* The returns of SDL_CreateProcess before its first pipe(): args is null, or
\* SDL_malloc or SDL_CreateProperties failed.
PosixFailsEarly(L) == L.args = "null" \/ L.fail \in {"malloc", "props"}

\* SDL_CreateProcess, POSIX, up to its return in the parent. The child it forks
\* starts as a copy of the parent and runs its branch in PosixChildExec.
PosixCreateWith(L, ps) ==
    LET args == L.args
        flags == L.flags
        fail == L.fail
    IN
    /\ platform = "posix"
    /\ Idle
    /\ faults < MaxFaults
    /\ IF PosixFailsEarly(L) \/ FreeHandles = {} THEN
            CreateFailed(args, flags, fdt, {}, <<>>, {})
        ELSE IF ps.stage # "" THEN
            CreateFailed(args, flags, ps.t, ps.created, ps.closes, {"props"})
        ELSE IF fail = "fork" \/ FreePids = {} THEN
            \E g \in (IF HasFlag(flags, SDL_PROCESS_STDERR) /\ ps.err = UninitPair
                       THEN {Pair(x, y) : x \in Garbage, y \in Garbage}
                       ELSE {UninitPair}) :
                LET cl == ForkFailCloses(flags, ps, g) IN
                CreateFailed(args, flags, CloseAll(ps.t, cl), ps.created, cl, {"props"})
        ELSE
            LET pid == NewPid IN
                LET h == CHOOSE x \in FreeHandles : \A y \in FreeHandles : x <= y
                    cl == PosixParentCloses(flags, ps)
                    t == CloseAll(ps.t, cl)
                    ios == IF fail = "openio" THEN {} ELSE AdapterStreams(flags)
                    ch == [NoChild EXCEPT !.st = "forked", !.prog = args, !.code = L.code,
                                          !.env = L.env, !.flags = flags,
                                          !.stdin_pipe = ps.in, !.stdout_pipe = ps.out,
                                          !.stderr_pipe = ps.err,
                                          !.dupfail = (fail = "dupstrlist"),
                                          !.fdt = ps.t, !.own = ps.created]
                IN  /\ fdt' = t
                    /\ child' = [child EXCEPT ![pid] = ch]
                    /\ pipebuf' = CleanBuf(pipebuf, t, child')
                    /\ proc' = [proc EXCEPT ![h] =
                                    [live |-> TRUE, pid |-> pid, stdin_pipe |-> ps.in,
                                     stdout_pipe |-> ps.out, stderr_pipe |-> ps.err,
                                     flags |-> flags, props |-> ios, ios |-> ios,
                                     launch |-> L, killed |-> FALSE]]
                    /\ wlog' = [wlog EXCEPT ![h] = <<>>]
                    /\ rlog' = [rlog EXCEPT ![h] = <<>>]
                    /\ last' = [NoLast EXCEPT !.op = "create", !.h = h, !.ret = h,
                                              !.args = args, !.flags = flags, !.pid = pid,
                                              !.created = ps.created, !.closes = cl]
                    /\ UNCHANGED <<platform, faults, blocked, parent>>

PosixCreateProcess(L) == PosixCreateWith(L, PosixPipes(L.flags, L.fail))

\* A process ends: its descriptors are closed and it stays in the process table,
\* unreaped, with its status.
Terminate(c, status) ==
    /\ child' = [child EXCEPT ![c] = [NoChild EXCEPT !.st = "zombie", !.status = status,
                                                     !.held = child[c].held]]
    /\ pipebuf' = CleanBuf(pipebuf, fdt, child')

\* The child branch of SDL_CreateProcess: wire the redirected descriptors, copy
\* args and env, exec; exit(1) when the copy or the exec fails.
PosixChildExec(c) ==
    /\ platform = "posix"
    /\ child[c].st = "forked"
    /\ LET me == child[c]
           fl == me.flags
           t1 == IF HasFlag(fl, SDL_PROCESS_STDIN)
                 THEN Dup2(CloseFd(me.fdt, me.stdin_pipe.w), me.stdin_pipe.r, STDIN_FILENO)
                 ELSE me.fdt
           t2 == IF HasFlag(fl, SDL_PROCESS_STDOUT)
                 THEN Dup2(CloseFd(t1, me.stdout_pipe.r), me.stdout_pipe.w, STDOUT_FILENO)
                 ELSE t1
       IN \E g \in (IF HasFlag(fl, SDL_PROCESS_STDERR) /\ ErrToOut(fl)
                        /\ me.stdout_pipe = UninitPair
                     THEN Garbage ELSE {Uninit}),
             crash \in (IF me.prog \in {"missing", "empty"} /\ me.env = "null" /\ ~me.dupfail
                         THEN {Signaled(SIGSEGV), Exited(1)} ELSE {Exited(1)}) :
            LET t3 == IF ~HasFlag(fl, SDL_PROCESS_STDERR) THEN t2
                      ELSE IF ErrToOut(fl)
                      THEN Dup2(t2, IF g = Uninit THEN me.stdout_pipe.w ELSE g, STDERR_FILENO)
                      ELSE Dup2(CloseFd(t2, me.stderr_pipe.r), me.stderr_pipe.w, STDERR_FILENO)
            IN  IF me.dupfail \/ me.prog \in {"missing", "empty"} THEN
                    Terminate(c, crash)
                ELSE
                    /\ child' = [child EXCEPT ![c] =
                                    [NoChild EXCEPT !.st = "running", !.prog = me.prog,
                                                    !.code = me.code, !.fdt = StdOnly(t3),
                                                    !.extra = Extras(t3),
                                                    !.own = me.own, !.sig = me.sig]]
                    /\ pipebuf' = CleanBuf(pipebuf, fdt, child')
    /\ last' = NoLast
    /\ UNCHANGED <<platform, faults, fdt, proc, blocked, parent, wlog, rlog>>

\* ------------------------------------------------ pipes, as the OS sees them
Holders == {c \in Pids : child[c].st \in {"forked", "running"}}
HasWriter(p) == HoldsEnd(fdt, p, "w") \/ \E c \in Holders : ChildHolds(child[c], p, "w")
HasReader(p) == HoldsEnd(fdt, p, "r") \/ \E c \in Holders : ChildHolds(child[c], p, "r")
Room(p) == PipeCap - Len(pipebuf[p])

Min(a, b) == IF a <= b THEN a ELSE b
\* A read() that hands over everything the pipe holds, whatever the size asked.
TakeAll(q, n) == q

Take(q, n) == SubSeq(q, 1, Min(n, Len(q)))
Drop(q, n) == SubSeq(q, Min(n, Len(q)) + 1, Len(q))

\* What a descriptor value of the parent denotes right now.
Entry(f) == IF f \in FdNum THEN fdt[f] ELSE NoFd

\* -------------------------------------------------- POSIX: stream adapters
\* The pipe descriptor a handle records for the parent side of a stream.
PosixParentFd(p, s) ==
    IF s = "stdin" THEN p.stdin_pipe.w
    ELSE IF s = "stdout" THEN p.stdout_pipe.r ELSE p.stderr_pipe.r

StreamFlag(s) ==
    IF s = "stdin" THEN SDL_PROCESS_STDIN
    ELSE IF s = "stdout" THEN SDL_PROCESS_STDOUT ELSE SDL_PROCESS_STDERR

\* A close callback that overwrites the recorded descriptor of every stream.
SetParentFdAll(p, s, v) ==
    [p EXCEPT !.stdin_pipe.w = v, !.stdout_pipe.r = v, !.stderr_pipe.r = v]

SetParentFd(p, s, v) ==
    IF s = "stdin" THEN [p EXCEPT !.stdin_pipe.w = v]
    ELSE IF s = "stdout" THEN [p EXCEPT !.stdout_pipe.r = v]
    ELSE [p EXCEPT !.stderr_pipe.r = v]

\* A close callback without the "already closed" test.
PosixNeverAlreadyClosed(p, s) == FALSE

\* The "already closed" test of the close callbacks.
PosixAlreadyClosed(p, s) == PosixParentFd(p, s) < 0

\* process_stdin_close / process_stdout_close / process_stderr_close: what one
\* invocation does to the handle and the descriptor table.
\* [ok, p, t, closes]
PosixStreamClose(p, t, s) ==
    IF ~HasFlag(p.flags, StreamFlag(s)) \/ PosixAlreadyClosed(p, s) THEN
        [ok |-> FALSE, p |-> p, t |-> t, closes |-> <<>>]
    ELSE
        [ok |-> TRUE,
         p |-> [SetParentFd(p, s, InvalidFd) EXCEPT !.props = @ \ {s}],
         t |-> CloseFd(t, PosixParentFd(p, s)),
         closes |-> <<PosixParentFd(p, s)>>]

\* ------------------------------------------ Windows: SDL_CreateProcess
\* CloseHandle(h); the code guards its calls with h != NULL where it guards at all.
WinClose(t, f) == IF f = NullHandle THEN t ELSE CloseFd(t, f)

RECURSIVE WinCloseAll(_, _)
WinCloseAll(t, fs) == IF fs = <<>> THEN t ELSE WinCloseAll(WinClose(t, Head(fs)), Tail(fs))

\* A SetHandleInformation that leaves the handle as CreatePipe made it.
ClearInheritNot(t, f) == t

\* SetHandleInformation(h, HANDLE_FLAG_INHERIT, 0)
ClearInherit(t, f) == [t EXCEPT ![f].inh = FALSE]

\* CreatePipe, then SetHandleInformation on the end the parent keeps.
\* [ok, t, pair, p]: on failure the pair holds what the handle then holds.
WinPipe(t, used, keep, failPipe, failSet) ==
    IF ~CanPipe(t) \/ failPipe THEN [ok |-> FALSE, t |-> t, pair |-> NullPair, p |-> 0]
    ELSE LET m == MkPipe(t, used) IN
         IF failSet THEN [ok |-> FALSE, t |-> m.t, pair |-> m.pair, p |-> m.p]
         ELSE [ok |-> TRUE,
               t |-> ClearInherit(m.t, IF keep = "w" THEN m.pair.w ELSE m.pair.r),
               pair |-> m.pair, p |-> m.p]

\* The pipe set-up of SDL_CreateProcess up to the call of CreateProcessA.
NoWinPipe(t) == [ok |-> TRUE, t |-> t, pair |-> NullPair, p |-> 0]

WinPipesOf(a, b, c) ==
    IF ~a.ok THEN
        [ok |-> FALSE, t |-> a.t, created |-> {a.p} \ {0},
         in |-> a.pair, out |-> NullPair, err |-> NullPair]
    ELSE IF ~b.ok THEN
        [ok |-> FALSE, t |-> b.t, created |-> {a.p, b.p} \ {0},
         in |-> a.pair, out |-> b.pair, err |-> NullPair]
    ELSE
        [ok |-> c.ok, t |-> c.t, created |-> {a.p, b.p, c.p} \ {0},
         in |-> a.pair, out |-> b.pair, err |-> c.pair]

WinPipesErr(flags, fail, a, b) ==
    WinPipesOf(a, b,
               IF WantErrPipe(flags)
               THEN WinPipe(b.t, LivePipes \cup {a.p, b.p}, "r", fail = "pipe_stderr",
                            fail = "sethandle")
               ELSE NoWinPipe(b.t))

WinPipesOut(flags, fail, a) ==
    WinPipesErr(flags, fail, a,
                IF HasFlag(flags, SDL_PROCESS_STDOUT)
                THEN WinPipe(a.t, LivePipes \cup {a.p}, "r", fail = "pipe_stdout",
                             fail = "sethandle")
                ELSE NoWinPipe(a.t))

WinPipes(flags, fail) ==
    WinPipesOut(flags, fail,
                IF HasFlag(flags, SDL_PROCESS_STDIN)
                THEN WinPipe(fdt, LivePipes, "w", fail = "pipe_stdin", fail = "sethandle")
                ELSE NoWinPipe(fdt))

\* The handles the failed: label closes, in order: per flagged stream the READ_END
\* of its pipe, tested and closed twice.
WinFailedCloses(flags, ps) ==
    LET twice(f) == IF f # NullHandle THEN <<f, f>> ELSE <<>> IN
    (IF HasFlag(flags, SDL_PROCESS_STDIN) THEN twice(ps.in.r) ELSE <<>>)
    \o (IF HasFlag(flags, SDL_PROCESS_STDOUT) THEN twice(ps.out.r) ELSE <<>>)
    \o (IF HasFlag(flags, SDL_PROCESS_STDERR) THEN twice(ps.err.r) ELSE <<>>)

\* After CreateProcessA: per stream with an adapter, CloseHandle of the child-side
\* end (and the field is set to NULL).
WinParentCloses(flags, ps) ==
    (IF HasFlag(flags, SDL_PROCESS_STDIN) THEN <<ps.in.r>> ELSE <<>>)
    \o (IF HasFlag(flags, SDL_PROCESS_STDOUT) THEN <<ps.out.w>> ELSE <<>>)
    \o (IF HasFlag(flags, SDL_PROCESS_STDERR) /\ ~ErrToOut(flags) THEN <<ps.err.w>> ELSE <<>>)

\* The handle table CreateProcessA (bInheritHandles = TRUE) gives the child: every
\* inheritable handle of the parent, and the standard handles of startup_info.
WinChildTable(flags, ps, t) ==
    LET std(f) == IF f = NullHandle THEN NoFd ELSE t[f]
        useStd == flags \cap {SDL_PROCESS_STDIN, SDL_PROCESS_STDOUT, SDL_PROCESS_STDERR} # {}
    IN [f \in FdNum |->
          IF f = STDIN_FILENO THEN
              (IF HasFlag(flags, SDL_PROCESS_STDIN) THEN std(ps.in.r) ELSE StdFd)
          ELSE IF f = STDOUT_FILENO THEN
              (IF HasFlag(flags, SDL_PROCESS_STDOUT) THEN std(ps.out.w) ELSE StdFd)
          ELSE IF f = STDERR_FILENO THEN
              (IF ~HasFlag(flags, SDL_PROCESS_STDERR) THEN StdFd
               ELSE IF ErrToOut(flags) THEN std(ps.out.w) ELSE std(ps.err.w))
          ELSE IF t[f].inh THEN t[f] ELSE NoFd]

\* The failures of SDL_CreateProcess before its first CreatePipe: args is null, or
\* SDL_calloc, SDL_CreateProperties, join_arguments or join_env failed.
WinFailsEarly(L) == L.args = "null" \/ L.fail \in {"malloc", "props", "join"}

WinCreateWith(L, ps) ==
    LET args == L.args
        flags == L.flags
        fail == L.fail
        oob == args = "empty" /\ fail \notin {"malloc", "props", "join"}
    IN
    /\ platform = "windows"
    /\ Idle
    /\ faults < MaxFaults
    /\ IF WinFailsEarly(L) \/ FreeHandles = {} THEN
            CreateFailed(args, flags, fdt, {}, <<>>, {})
        ELSE IF ~ps.ok \/ args \in {"missing", "empty"} \/ fail = "fork" \/ FreePids = {} THEN
            LET cl == WinFailedCloses(flags, ps)
                t == WinCloseAll(ps.t, cl)
            IN  /\ fdt' = t
                /\ pipebuf' = CleanBuf(pipebuf, t, child)
                /\ last' = [NoLast EXCEPT !.op = "create", !.ret = 0, !.args = args,
                                          !.flags = flags, !.created = ps.created,
                                          !.closes = cl, !.err = TRUE, !.oob = oob]
                /\ faults' = faults + 1
                /\ UNCHANGED <<platform, proc, child, blocked, parent, wlog, rlog>>
        ELSE
            LET pid == NewPid IN
                LET h == CHOOSE x \in FreeHandles : \A y \in FreeHandles : x <= y
                    cl == WinParentCloses(flags, ps)
                    t == WinCloseAll(ps.t, cl)
                    ios == IF fail = "openio" THEN {} ELSE AdapterStreams(flags)
                    ad == AdapterStreams(flags)
                    ch == [NoChild EXCEPT !.st = "running", !.prog = args, !.code = L.code,
                                          !.fdt = StdOnly(WinChildTable(flags, ps, ps.t)),
                                          !.extra = Extras(WinChildTable(flags, ps, ps.t)),
                                          !.own = ps.created, !.held = TRUE]
                IN  /\ fdt' = t
                    /\ child' = [child EXCEPT ![pid] = ch]
                    /\ pipebuf' = CleanBuf(pipebuf, t, child')
                    /\ proc' = [proc EXCEPT ![h] =
                          [live |-> TRUE, pid |-> pid,
                           stdin_pipe |-> IF "stdin" \in ad
                                          THEN [ps.in EXCEPT !.r = NullHandle] ELSE ps.in,
                           stdout_pipe |-> IF "stdout" \in ad
                                           THEN [ps.out EXCEPT !.w = NullHandle] ELSE ps.out,
                           stderr_pipe |-> IF "stderr" \in ad
                                           THEN [ps.err EXCEPT !.w = NullHandle] ELSE ps.err,
                           flags |-> flags, props |-> ios, ios |-> ios,
                                     launch |-> L, killed |-> FALSE]]
                    /\ wlog' = [wlog EXCEPT ![h] = <<>>]
                    /\ rlog' = [rlog EXCEPT ![h] = <<>>]
                    /\ last' = [NoLast EXCEPT !.op = "create", !.h = h, !.ret = h,
                                              !.args = args, !.flags = flags, !.pid = pid,
                                              !.created = ps.created, !.closes = cl]
                    /\ UNCHANGED <<platform, faults, blocked, parent>>

WinCreateProcess(L) == WinCreateWith(L, WinPipes(L.flags, L.fail))

\* ------------------------------------------------ Windows: stream adapters
\* process_stdin_close / process_stdout_close / process_stderr_close. The test
\* "handle < 0" compares a pointer with 0 and is never true.
WinAlreadyClosed(p, s) == FALSE
WinStreamClose(p, t, s) ==
    IF ~HasFlag(p.flags, StreamFlag(s)) \/ WinAlreadyClosed(p, s) THEN
        [ok |-> FALSE, p |-> p, t |-> t, closes |-> <<>>]
    ELSE
        [ok |-> TRUE,
         p |-> [SetParentFd(p, s, NullHandle) EXCEPT !.props = @ \ {s}],
         t |-> WinClose(t, PosixParentFd(p, s)),
         closes |-> <<PosixParentFd(p, s)>>]

StreamClose(p, t, s) ==
    IF platform = "posix" THEN PosixStreamClose(p, t, s) ELSE WinStreamClose(p, t, s)

\* ------------------------------------------------------ stream operations
\* SDL_CloseIO on an adapter of handle h: the close callback runs.
CloseIO(h, s) ==
    /\ Idle
    /\ proc[h].live
    /\ s \in proc[h].ios
    /\ LET r == StreamClose(proc[h], fdt, s) IN
        /\ proc' = [proc EXCEPT ![h] = r.p]
        /\ fdt' = r.t
        /\ pipebuf' = CleanBuf(pipebuf, r.t, child)
        /\ last' = [NoLast EXCEPT !.op = "close", !.h = h, !.stream = s,
                                  !.ret = IF r.ok THEN 1 ELSE 0, !.err = ~r.ok,
                                  !.closes = r.closes,
                                  !.was = IF s \in proc[h].props THEN "open" ELSE "closed"]
    /\ UNCHANGED <<platform, faults, child, blocked, parent, wlog, rlog>>

\* The k bytes a handle's stdin adapter sends next: the bytes are numbered in the
\* order they are written.
NextBytes(h, k) == [i \in 1..k |-> Len(wlog[h]) + i]

\* One attempt of write()/WriteFile on the descriptor the handle records for stdin,
\* with `done` of `n` bytes already in the pipe.
WriteStep(h, n, done) ==
    LET e == Entry(proc[h].stdin_pipe.w)
        k == Min(Room(e.pipe), n - done)
    IN  IF e.end # "w" \/ (platform = "windows" /\ ~HasReader(e.pipe)) THEN
            \* EBADF, or ERROR_NO_DATA: the call returns 0 with status error
            /\ last' = [NoLast EXCEPT !.op = "write", !.h = h, !.stream = "stdin",
                                      !.n = 0, !.status = "error", !.err = TRUE]
            /\ blocked' = NoCall
            /\ UNCHANGED <<parent, pipebuf, wlog>>
        ELSE IF ~HasReader(e.pipe) THEN
            \* SIGPIPE, at its default disposition
            /\ parent' = "killed"
            /\ blocked' = NoCall
            /\ last' = [NoLast EXCEPT !.op = "sigpipe", !.h = h, !.stream = "stdin"]
            /\ UNCHANGED <<pipebuf, wlog>>
        ELSE
            /\ pipebuf' = [pipebuf EXCEPT ![e.pipe] = @ \o NextBytes(h, k)]
            /\ wlog' = [wlog EXCEPT ![h] = @ \o NextBytes(h, k)]
            /\ parent' = parent
            /\ IF done + k = n THEN
                   /\ blocked' = NoCall
                   /\ last' = [NoLast EXCEPT !.op = "write", !.h = h, !.stream = "stdin",
                                             !.n = n]
               ELSE
                   /\ blocked' = [op |-> "write", h |-> h, stream |-> "stdin", n |-> n,
                                  done |-> done + k]
                   /\ last' = NoLast

\* SDL_WriteIO on the stdin adapter: process_write_to_stdin.
WriteIO(h) ==
    /\ Idle
    /\ proc[h].live
    /\ "stdin" \in proc[h].props
    /\ \E n \in 1..(MaxBytes - Len(wlog[h])) : WriteStep(h, n, 0)
    /\ UNCHANGED <<platform, faults, fdt, proc, child, rlog>>

\* A write that found the pipe full goes on when there is room, or fails when
\* the last reader is gone.
WriteResume ==
    /\ parent = "running"
    /\ blocked.op = "write"
    /\ LET e == Entry(proc[blocked.h].stdin_pipe.w) IN
           Room(e.pipe) > 0 \/ ~HasReader(e.pipe)
    /\ WriteStep(blocked.h, blocked.n, blocked.done)
    /\ UNCHANGED <<platform, faults, fdt, proc, child, rlog>>

\* One attempt of read()/ReadFile on the descriptor the handle records for stream s.
ReadReady(h, s) ==
    LET e == Entry(PosixParentFd(proc[h], s)) IN
    e.end # "r" \/ pipebuf[e.pipe] # <<>> \/ ~HasWriter(e.pipe)

ReadStep(h, s, size) ==
    LET e == Entry(PosixParentFd(proc[h], s))
        got == Take(pipebuf[e.pipe], size)
    IN  IF e.end # "r" \/ (platform = "windows" /\ pipebuf[e.pipe] = <<>>) THEN
            \* EBADF, or ERROR_BROKEN_PIPE at end of file
            /\ last' = [NoLast EXCEPT !.op = "read", !.h = h, !.stream = s, !.n = 0,
                                      !.status = "error", !.err = TRUE]
            /\ UNCHANGED <<pipebuf, rlog>>
        ELSE
            /\ pipebuf' = [pipebuf EXCEPT ![e.pipe] = Drop(@, size)]
            /\ rlog' = IF s = "stdout" THEN [rlog EXCEPT ![h] = @ \o got] ELSE rlog
            /\ last' = [NoLast EXCEPT !.op = "read", !.h = h, !.stream = s,
                                      !.n = Len(got)]

\* SDL_ReadIO on the stdout or stderr adapter: process_read_from_stdout / _stderr.
ReadIO(h, s) ==
    /\ Idle
    /\ proc[h].live
    /\ s \in proc[h].props \ {"stdin"}
    /\ \E size \in 1..PipeCap :
          IF ReadReady(h, s) THEN
              /\ ReadStep(h, s, size)
              /\ blocked' = blocked
          ELSE
              /\ blocked' = [op |-> "read", h |-> h, stream |-> s, n |-> size, done |-> 0]
              /\ last' = NoLast
              /\ UNCHANGED <<pipebuf, rlog>>
    /\ UNCHANGED <<platform, faults, fdt, proc, child, parent, wlog>>

ReadResume ==
    /\ parent = "running"
    /\ blocked.op = "read"
    /\ ReadReady(blocked.h, blocked.stream)
    /\ ReadStep(blocked.h, blocked.stream, blocked.n)
    /\ blocked' = NoCall
    /\ UNCHANGED <<platform, faults, fdt, proc, child, parent, wlog>>

\* An unsupported callback that reports success.
UnsupportedLastOk(h, s, op) ==
    [NoLast EXCEPT !.op = op, !.h = h, !.stream = s, !.n = 0]

\* process_read_unsupported / process_write_unsupported: *status becomes
\* SDL_IO_STATUS_ERROR, an error is set and 0 is returned.
UnsupportedLast(h, s, op) ==
    [NoLast EXCEPT !.op = op, !.h = h, !.stream = s, !.n = 0, !.status = "error",
                   !.err = TRUE]

\* The callbacks SDL_CreateProcess puts in each adapter's interface: the stdin
\* adapter reads with process_read_unsupported, the stdout and stderr adapters
\* write with process_write_unsupported.
Unsupported(s, op) ==
    \/ s = "stdin" /\ op = "read"
    \/ s \in {"stdout", "stderr"} /\ op = "write"

\* SDL_ReadIO on the stdin adapter, SDL_WriteIO on the stdout or stderr adapter.
UnsupportedIO(h, s, op) ==
    /\ Idle
    /\ proc[h].live
    /\ s \in proc[h].props
    /\ Unsupported(s, op)
    /\ last' = UnsupportedLast(h, s, op)
    /\ UNCHANGED <<platform, faults, fdt, pipebuf, proc, child, blocked, parent, wlog, rlog>>

\* ------------------------------------------------------ kill, wait, destroy
\* The calls on a null handle. SDL_KillProcess returns SDL_FALSE on POSIX and -1 on
\* Windows, SDL_WaitProcess -1, and SDL_GetProcessProperties -1 converted to
\* SDL_PropertiesID (all bits set; the id SDL_CreateProperties gives on failure,
\* the one tested with !process->props, is 0). Each sets an error first.
NullCalls == {"kill", "wait", "props"}
NullRet(op) ==
    IF op = "kill" THEN (IF platform = "posix" THEN 0 ELSE -1)
    ELSE -1
NullHandleCall(op) ==
    /\ Idle
    /\ last' = [NoLast EXCEPT !.op = op, !.h = 0, !.ret = NullRet(op), !.err = TRUE,
                              !.was = "null"]
    /\ UNCHANGED <<platform, faults, fdt, pipebuf, proc, child, blocked, parent, wlog, rlog>>

\* SDL_DestroyProcess on a null handle. Its first statement reads process->flags
\* through the null pointer: the access faults and ends the calling process, or
\* the read yields some value and the call goes on to its end.
DestroyNullOutcomes ==
    {[read |-> TRUE, parent |-> "killed"], [read |-> TRUE, parent |-> "running"]}

DestroyNullHandle ==
    /\ Idle
    /\ \E o \in DestroyNullOutcomes :
          /\ last' = [NoLast EXCEPT !.op = "destroy", !.h = 0, !.was = "null",
                                    !.oob = o.read]
          /\ parent' = o.parent
    /\ UNCHANGED <<platform, faults, fdt, pipebuf, proc, child, blocked, wlog, rlog>>

\* SDL_KillProcess. POSIX: kill(pid, force ? SIGKILL : SIGTERM), which reaches
\* whatever process has that pid now. Windows: TerminateProcess(hProcess, 1).
KillTarget(h) == child[proc[h].pid]
KillSucceeds(h) ==
    IF platform = "posix" THEN KillTarget(h).st # "free"
    ELSE KillTarget(h).st = "running"

\* A kill that sends the null signal, which only tests for the process.
KillSignalNull(force) == 0

KillSignal(force) == IF force \/ platform = "windows" THEN SIGKILL ELSE SIGTERM

KillProcess(h) ==
    /\ Idle
    /\ proc[h].live
    /\ \E force \in BOOLEAN :
        LET pid == proc[h].pid
            sig == KillSignal(force)
            hit == KillSucceeds(h) /\ child[pid].st \in {"forked", "running", "foreign"}
        IN  /\ child' = IF hit /\ child[pid].sig # SIGKILL
                        THEN [child EXCEPT ![pid].sig = sig] ELSE child
            /\ last' = [NoLast EXCEPT !.op = "kill", !.h = h, !.pid = pid,
                                      !.ret = IF KillSucceeds(h) THEN 1 ELSE 0,
                                      !.err = ~KillSucceeds(h), !.block = force,
                                      !.was = child[pid].st]
            /\ proc' = IF force /\ hit THEN [proc EXCEPT ![h].killed = TRUE] ELSE proc
    /\ UNCHANGED <<platform, faults, fdt, pipebuf, blocked, parent, wlog, rlog>>

\* What waitpid() / WaitForSingleObject() finds for the handle without blocking.
\* POSIX: -1 when the pid names no child of the caller (ECHILD), 0 when that child
\* has not changed state, else 1 and the child is reaped. Windows: the result of
\* WaitForSingleObject is WAIT_OBJECT_0 or WAIT_TIMEOUT, and both report 1 with the
\* value of GetExitCodeProcess.
WaitReady(h, block) ==
    LET c == child[proc[h].pid] IN
    ~block \/ c.st \notin {"forked", "running"}

PosixWaitRet(c) ==
    IF c.st \in {"free", "foreign"} THEN -1
    ELSE IF c.st = "zombie" THEN 1 ELSE 0

WinWaitRet(c) == 1

\* A wait that stores 0 whatever the child's status.
WaitCodeZero(c) == 0

\* What is stored through returncode: WEXITSTATUS or WTERMSIG of the status, or
\* the value of GetExitCodeProcess.
WaitCode(c) ==
    IF platform = "posix" THEN c.status.val
    ELSE IF c.st = "running" THEN STILL_ACTIVE ELSE c.status.val

WaitStep(h, block) ==
    LET pid == proc[h].pid
        c == child[pid]
        ret == IF platform = "posix" THEN PosixWaitRet(c) ELSE WinWaitRet(c)
        code == WaitCode(c)
    IN  /\ last' = [NoLast EXCEPT !.op = "wait", !.h = h, !.pid = pid, !.ret = ret,
                                  !.block = block, !.was = c.st, !.err = (ret < 0),
                                  !.stored = (ret = 1), !.code = IF ret = 1 THEN code ELSE 0,
                                  !.status = IF ret = 1 THEN c.status.kind ELSE "ok"]
        /\ child' = IF platform = "posix" /\ c.st = "zombie"
                    THEN [child EXCEPT ![pid] = NoChild] ELSE child
        /\ proc' = IF ret = 1 THEN [proc EXCEPT ![h].killed = FALSE] ELSE proc

\* SDL_WaitProcess.
WaitProcess(h) ==
    /\ Idle
    /\ proc[h].live
    /\ \E block \in BOOLEAN :
          IF WaitReady(h, block) THEN
              /\ WaitStep(h, block)
              /\ blocked' = blocked
          ELSE
              /\ blocked' = [op |-> "wait", h |-> h, stream |-> "none", n |-> 0, done |-> 0]
              /\ last' = NoLast
              /\ UNCHANGED <<child, proc>>
    /\ UNCHANGED <<platform, faults, fdt, pipebuf, parent, wlog, rlog>>

WaitResume ==
    /\ parent = "running"
    /\ blocked.op = "wait"
    /\ WaitReady(blocked.h, TRUE)
    /\ WaitStep(blocked.h, TRUE)
    /\ blocked' = NoCall
    /\ UNCHANGED <<platform, faults, fdt, pipebuf, parent, wlog, rlog>>

\* SDL_DestroyProcess: SDL_CloseIO on the adapters the property bag still holds, in
\* the order stdin, stderr, stdout; on Windows CloseHandle of the thread and process
\* handles; then the handle is freed.
DestroyOrder == <<"stdin", "stderr", "stdout">>

RECURSIVE DestroyStreams(_, _, _, _)
DestroyStreams(p, t, cl, i) ==
    IF i > Len(DestroyOrder) THEN [p |-> p, t |-> t, closes |-> cl]
    ELSE LET s == DestroyOrder[i] IN
         IF HasFlag(p.flags, StreamFlag(s)) /\ s \in p.props
         THEN LET r == StreamClose(p, t, s) IN
              DestroyStreams(r.p, r.t, cl \o r.closes, i + 1)
         ELSE DestroyStreams(p, t, cl, i + 1)

DestroyProcess(h) ==
    /\ Idle
    /\ proc[h].live
    /\ LET r == DestroyStreams(proc[h], fdt, <<>>, 1)
           pid == proc[h].pid
       IN  /\ fdt' = r.t
           /\ proc' = [proc EXCEPT ![h] = NoProc]
           /\ child' = IF platform = "posix" THEN child
                       ELSE IF child[pid].st = "zombie" THEN [child EXCEPT ![pid] = NoChild]
                       ELSE [child EXCEPT ![pid].held = FALSE]
           /\ pipebuf' = CleanBuf(pipebuf, r.t, child')
           /\ last' = [NoLast EXCEPT !.op = "destroy", !.h = h, !.pid = pid,
                                     !.closes = r.closes, !.was = child[pid].st,
                                     !.leaked = {s \in Streams :
                                                   Entry(PosixParentFd(r.p, s)).end
                                                       \in {"r", "w"}
                                                   /\ s \in AdapterStreams(proc[h].flags)}]
    /\ UNCHANGED <<platform, faults, blocked, parent, wlog, rlog>>

\* ---------------------------------------------------- the child processes
\* A process that ends: on POSIX it stays as a zombie until it is reaped; on
\* Windows its object stays while a handle to it is open.
Ends(c, status) ==
    IF platform = "windows" /\ ~child[c].held THEN
        /\ child' = [child EXCEPT ![c] = NoChild]
        /\ pipebuf' = CleanBuf(pipebuf, fdt, child')
    ELSE Terminate(c, status)

\* A pending signal (or TerminateProcess) takes effect.
OsDeliver(c) ==
    /\ child[c].st \in {"forked", "running"}
    /\ child[c].sig # 0
    /\ Ends(c, IF platform = "posix" THEN Signaled(child[c].sig) ELSE Exited(1))
    /\ last' = NoLast
    /\ UNCHANGED <<platform, faults, fdt, proc, blocked, parent, wlog, rlog>>

\* sdlsubprocess --exit-code c: returns c from main.
ChildExit(c) ==
    /\ child[c].st = "running"
    /\ child[c].prog = "exit"
    /\ Ends(c, Exited(child[c].code))
    /\ last' = NoLast
    /\ UNCHANGED <<platform, faults, fdt, proc, blocked, parent, wlog, rlog>>

\* sdlsubprocess --stdin-to-stdout: fgetc(stdin) fills the stdio buffer with what
\* the pipe holds.
ChildEchoRead(c) ==
    /\ child[c].st = "running"
    /\ child[c].prog = "echo"
    /\ child[c].hold = <<>>
    /\ child[c].fdt[STDIN_FILENO].end = "r"
    /\ LET p == child[c].fdt[STDIN_FILENO].pipe IN
        /\ pipebuf[p] # <<>>
        /\ child' = [child EXCEPT ![c].hold = pipebuf[p]]
        /\ pipebuf' = [pipebuf EXCEPT ![p] = <<>>]
    /\ last' = NoLast
    /\ UNCHANGED <<platform, faults, fdt, proc, blocked, parent, wlog, rlog>>

\* fputc(c, stdout); fflush(stdout): one byte to descriptor 1. Writing to a pipe no
\* process reads ends the child (SIGPIPE; on Windows the write fails and the loop
\* goes on, dropping the byte).
ChildEchoWrite(c) ==
    /\ child[c].st = "running"
    /\ child[c].prog = "echo"
    /\ child[c].hold # <<>>
    /\ LET e == child[c].fdt[STDOUT_FILENO] IN
        IF e.end = "w" /\ HasReader(e.pipe) THEN
            /\ Room(e.pipe) > 0
            /\ pipebuf' = [pipebuf EXCEPT ![e.pipe] = Append(@, Head(child[c].hold))]
            /\ child' = [child EXCEPT ![c].hold = Tail(@)]
        ELSE IF e.end = "w" /\ platform = "posix" THEN
            Ends(c, Signaled(SIGPIPE))
        ELSE
            /\ child' = [child EXCEPT ![c].hold = Tail(@)]
            /\ pipebuf' = pipebuf
    /\ last' = NoLast
    /\ UNCHANGED <<platform, faults, fdt, proc, blocked, parent, wlog, rlog>>

\* fgetc(stdin) returns EOF: the loop ends and main returns exit_code, 0.
ChildEchoEof(c) ==
    /\ child[c].st = "running"
    /\ child[c].prog = "echo"
    /\ child[c].hold = <<>>
    /\ LET e == child[c].fdt[STDIN_FILENO] IN
        \/ e.end \in {"none", "w"}
        \/ e.end = "r" /\ pipebuf[e.pipe] = <<>> /\ ~HasWriter(e.pipe)
    /\ Ends(c, Exited(child[c].code))
    /\ last' = [NoLast EXCEPT !.op = "eof", !.pid = c, !.code = child[c].code]
    /\ UNCHANGED <<platform, faults, fdt, proc, blocked, parent, wlog, rlog>>

\* The operating system gives a free pid to a process that is no child of the
\* caller, and that process ends.
OsForeign(c) ==
    /\ platform = "posix"
    /\ \/ child[c].st = "free" /\ child' = [child EXCEPT ![c].st = "foreign"]
       \/ child[c].st = "foreign" /\ child' = [child EXCEPT ![c] = NoChild]
    /\ last' = NoLast
    /\ UNCHANGED <<platform, faults, fdt, pipebuf, proc, blocked, parent, wlog, rlog>>

\* ------------------------------- Windows: the command line and environment
\* Strings are sequences of characters; a block of memory is a sequence of bytes.
QUOTE == "\""
BACKSLASH == "\\"
SPACE == " "
TAB == "\t"
NUL == "NUL"
\* A pointer to a string, a list or a block: null, or the object it points at.
NullPointer == [null |-> TRUE, at |-> <<>>]
PointerTo(x) == [null |-> FALSE, at |-> x]

\* The characters join_arguments puts a backslash before.
Escaped == {QUOTE, BACKSLASH, SPACE, TAB}

RECURSIVE EscapeArg(_)
EscapeArg(a) ==
    IF a = <<>> THEN <<>>
    ELSE (IF Head(a) \in Escaped THEN <<BACKSLASH, Head(a)>> ELSE <<Head(a)>>)
         \o EscapeArg(Tail(a))

\* The bytes the second loop of join_arguments writes: every argument, escaped,
\* followed by a space.
RECURSIVE JoinedArgs(_)
JoinedArgs(args) ==
    IF args = <<>> THEN <<>>
    ELSE EscapeArg(Head(args)) \o <<SPACE>> \o JoinedArgs(Tail(args))

\* join_arguments(args, &out) for a non-empty list: result[len - 1] = '\0' ends
\* the string where the last space was. oom: SDL_malloc fails.
join_arguments(args, oom) ==
    IF oom THEN [ok |-> FALSE, out |-> NullPointer]
    ELSE [ok |-> TRUE,
          out |-> PointerTo(SubSeq(JoinedArgs(args.at), 1, Len(JoinedArgs(args.at)) - 1))]

RECURSIVE EnvBytes(_)
EnvBytes(env) ==
    IF env = <<>> THEN <<>>
    ELSE Head(env) \o <<NUL>> \o EnvBytes(Tail(env))

\* join_env(env, &out): the whole block of len + 1 bytes it allocates and fills.
\* On failure of SDL_malloc *environment_out keeps the caller's NULL.
join_env(env, oom) ==
    IF env.null THEN [ok |-> TRUE, out |-> NullPointer]
    ELSE IF oom THEN [ok |-> FALSE, out |-> NullPointer]
    ELSE [ok |-> TRUE, out |-> PointerTo(EnvBytes(env.at) \o <<NUL>>)]

\* The argument lists and environments the two functions are called with.
SeqsUpTo(S, n) == UNION {[1..k -> S] : k \in 0..n}
ArgLists ==
    {PointerTo(l) :
        l \in SeqsUpTo(SeqsUpTo({"a", SPACE, QUOTE, BACKSLASH}, MaxArgLen), MaxArgs) \ {<<>>}}
EnvLists ==
    {PointerTo(l) : l \in SeqsUpTo({<<"A", "=">>, <<"B", "=", "b">>}, MaxArgs)}
    \cup {NullPointer}

JoinCall(fn, input) == [op |-> fn, args |-> input, was |-> "called", ok |-> FALSE, out |-> NullPointer]

\* A call of join_arguments or join_env from SDL_CreateProcess returns.
JoinArgumentsReturns ==
    /\ last.op = "join_arguments" /\ last.was = "called"
    /\ \E oom \in BOOLEAN :
          last' = [last EXCEPT !.was = "returned", !.ok = join_arguments(last.args, oom).ok,
                               !.out = join_arguments(last.args, oom).out]
    /\ UNCHANGED <<platform, faults, fdt, pipebuf, proc, child, blocked, parent, wlog, rlog>>

JoinEnvReturns ==
    /\ last.op = "join_env" /\ last.was = "called"
    /\ \E oom \in BOOLEAN :
          last' = [last EXCEPT !.was = "returned", !.ok = join_env(last.args, oom).ok,
                               !.out = join_env(last.args, oom).out]
    /\ UNCHANGED <<platform, faults, fdt, pipebuf, proc, child, blocked, parent, wlog, rlog>>

\* ------------------------------------------------------- specifications
NoLiveHandle == \A h \in Handles : ~proc[h].live

\* What the caller and the operating system do with the handles that exist.
Common ==
    \/ \E c \in Pids : PosixChildExec(c)
    \/ \E h \in Handles, s \in Streams : CloseIO(h, s)
    \/ \E h \in Handles : KillProcess(h)
    \/ \E h \in Handles : WaitProcess(h)
    \/ WaitResume
    \/ \E h \in Handles : DestroyProcess(h)
    \/ \E c \in Pids : OsDeliver(c)
    \/ \E c \in Pids : ChildExit(c)
    \/ \E c \in Pids : ChildEchoEof(c)

\* A caller that holds one handle at a time and launches in the ways of LS.
OneHandle(LS) ==
    \/ NoLiveHandle /\ \E L \in LS : PosixCreateProcess(L)
    \/ NoLiveHandle /\ \E L \in LS : WinCreateProcess(L)
    \/ Common

BasicLaunches ==
    {Launch("missing", "set", 0, F_IN_OUT, "none"),
     Launch("echo", "null", 0, F_IN_OUT, "none"),
     Launch("echo", "null", 0, F_IN_OUT, "pipe_stdout"),
     Launch("echo", "null", 0, F_IN_OUT, "sethandle"),
     Launch("echo", "null", 0, F_ALL, "pipe_stderr"),
     Launch("echo", "null", 0, F_ALL, "fork")}
    \cup {Launch("exit", "null", c, F_NONE, "none") : c \in ExitCodes}

Next == OneHandle(BasicLaunches)

Spec == Init /\ [][Next]_vars

\* The lifecycle under the scheduling the operating system guarantees: a pending
\* signal is delivered, and a blocked waitpid() returns once the child has ended.
FairSpec ==
    /\ Spec
    /\ WF_vars(\E c \in Pids : OsDeliver(c))
    /\ WF_vars(WaitResume)

\* The ways of calling SDL_CreateProcess that differ in the argument list, the
\* environment, the flags, and the allocation that fails.
ArgLaunches ==
    {Launch("echo", "null", 0, F_IN, "none"),
     Launch("echo", "null", 0, F_ALL, "none"),
     Launch("echo", "null", 0, F_MERGE, "none"),
     Launch("exit", "null", SIGKILL, F_NONE, "none"),
     Launch("missing", "null", 0, F_IN_OUT, "none"),
     Launch("empty", "set", 0, F_IN_OUT, "none"),
     Launch("echo", "set", 0, F_IN_OUT, "dupstrlist"),
     Launch("echo", "set", 0, F_IN_OUT, "join"),
     Launch("echo", "null", 0, F_IN_OUT, "openio"),
     Launch("echo", "null", 0, F_IN_OUT, "malloc"),
     Launch("echo", "null", 0, F_ALL, "props")}

\* A caller that holds one handle at a time, launches in these ways, closes
\* adapters, waits and destroys, and never kills.
NextArgs ==
    \/ NoLiveHandle /\ \E L \in ArgLaunches : PosixCreateProcess(L)
    \/ NoLiveHandle /\ \E L \in ArgLaunches : WinCreateProcess(L)
    \/ \E c \in Pids : PosixChildExec(c)
    \/ \E h \in Handles, s \in Streams : CloseIO(h, s)
    \/ \E h \in Handles : WaitProcess(h)
    \/ WaitResume
    \/ \E h \in Handles : DestroyProcess(h)
    \/ \E c \in Pids : ChildExit(c)
    \/ \E c \in Pids : ChildEchoEof(c)

SpecArgs == Init /\ [][NextArgs]_vars

\* A caller that misuses the interface: the operation an adapter does not
\* support, and calls on a null handle.
MisuseLaunches ==
    {Launch("echo", "null", 0, F_IN_OUT, "none"),
     Launch("echo", "null", 0, F_ALL, "none")}

NextMisuse ==
    \/ NoLiveHandle /\ \E L \in MisuseLaunches : PosixCreateProcess(L)
    \/ NoLiveHandle /\ \E L \in MisuseLaunches : WinCreateProcess(L)
    \/ \E c \in Pids : PosixChildExec(c)
    \/ \E h \in Handles, s \in Streams, op \in {"read", "write"} : UnsupportedIO(h, s, op)
    \/ \E op \in NullCalls : NullHandleCall(op)
    \/ DestroyNullHandle
    \/ \E h \in Handles : WriteIO(h)
    \/ WriteResume
    \/ \E h \in Handles, s \in Streams : CloseIO(h, s)
    \/ \E h \in Handles : DestroyProcess(h)
    \/ \E c \in Pids : ChildEchoRead(c)
    \/ \E c \in Pids : ChildEchoEof(c)

SpecMisuse == Init /\ [][NextMisuse]_vars

\* A caller that launches children that exit by themselves, waits for them and
\* kills them in any order, on a system where other processes start and end and
\* get the process ids that are free.
ReuseLaunches == {Launch("exit", "null", c, F_NONE, "none") : c \in ExitCodes}

NextReuse ==
    \/ NoLiveHandle /\ \E L \in ReuseLaunches : PosixCreateProcess(L)
    \/ NoLiveHandle /\ \E L \in ReuseLaunches : WinCreateProcess(L)
    \/ \E c \in Pids : PosixChildExec(c)
    \/ \E h \in Handles : KillProcess(h)
    \/ \E h \in Handles : WaitProcess(h)
    \/ WaitResume
    \/ \E h \in Handles : DestroyProcess(h)
    \/ \E c \in Pids : OsDeliver(c)
    \/ \E c \in Pids : ChildExit(c)
    \/ \E c \in Pids : OsForeign(c)

SpecReuse == Init /\ [][NextReuse]_vars

\* A caller that writes to the stdin adapter of a child that may have ended: the
\* child exits by itself without reading, or copies its input until it is killed.
BrokenPipeLaunches ==
    {Launch("exit", "null", 0, F_IN, "none"),
     Launch("echo", "null", 0, F_IN_OUT, "none")}

NextBrokenPipe ==
    \/ NoLiveHandle /\ \E L \in BrokenPipeLaunches : PosixCreateProcess(L)
    \/ NoLiveHandle /\ \E L \in BrokenPipeLaunches : WinCreateProcess(L)
    \/ \E c \in Pids : PosixChildExec(c)
    \/ \E h \in Handles : WriteIO(h)
    \/ WriteResume
    \/ \E h \in Handles : KillProcess(h)
    \/ \E h \in Handles : DestroyProcess(h)
    \/ \E c \in Pids : OsDeliver(c)
    \/ \E c \in Pids : ChildExit(c)
    \/ \E c \in Pids : ChildEchoRead(c)

SpecBrokenPipe == Init /\ [][NextBrokenPipe]_vars

\* SDL_CreateProcess on Windows at the point where it joins its arguments and
\* its environment, for every list within the bounds.
JoinInit ==
    /\ platform = "windows"
    /\ fdt = StdTable
    /\ pipebuf = [p \in PipeIds |-> <<>>]
    /\ proc = [h \in Handles |-> NoProc]
    /\ child = [c \in Pids |-> NoChild]
    /\ blocked = NoCall
    /\ parent = "running"
    /\ wlog = [h \in Handles |-> <<>>]
    /\ rlog = [h \in Handles |-> <<>>]
    /\ faults = 0
    /\ last \in {JoinCall("join_arguments", a) : a \in ArgLists}
                \cup {JoinCall("join_env", e) : e \in EnvLists}

NextJoin ==
    \/ JoinArgumentsReturns
    \/ JoinEnvReturns

SpecJoin == JoinInit /\ [][NextJoin]_vars

\* sdlsubprocess --stdin-to-stdout with stdin and stdout redirected.
EchoLaunch == Launch("echo", "null", 0, F_IN_OUT, "none")

\* A caller that launches echoing children and keeps every handle it got.
NextTwo ==
    \/ PosixCreateProcess(EchoLaunch)
    \/ WinCreateProcess(EchoLaunch)
    \/ \E c \in Pids : PosixChildExec(c)
    \/ \E h \in Handles : CloseIO(h, "stdin")
    \/ \E h \in Handles : WaitProcess(h)
    \/ WaitResume
    \/ \E c \in Pids : ChildEchoEof(c)

\* The children are scheduled, and a blocked waitpid() returns once it can.
SpecTwo ==
    /\ Init /\ [][NextTwo]_vars
    /\ WF_vars(\E c \in Pids : PosixChildExec(c))
    /\ WF_vars(\E c \in Pids : ChildEchoEof(c))
    /\ WF_vars(WaitResume)

\* test_stdin_to_stdout: launch the echoing child with stdin and stdout redirected,
\* write, read until everything written has come back, close the stdin adapter,
\* wait, destroy. The writes and reads may interleave, and so may the close.
Unread(h) == rlog[h] # wlog[h]
Waited(h) == last.op = "wait" /\ last.h = h /\ last.ret = 1

ParentReads == \E h \in Handles : Unread(h) /\ ReadIO(h, "stdout")

NextEcho ==
    \/ NoLiveHandle /\ PosixCreateProcess(EchoLaunch)
    \/ NoLiveHandle /\ WinCreateProcess(EchoLaunch)
    \/ \E c \in Pids : PosixChildExec(c)
    \/ \E h \in Handles : WriteIO(h)
    \/ WriteResume
    \/ ParentReads
    \/ ReadResume
    \/ \E h \in Handles : "stdin" \in proc[h].props /\ CloseIO(h, "stdin")
    \/ \E h \in Handles :
          "stdin" \notin proc[h].props /\ ~Unread(h) /\ ~Waited(h) /\ WaitProcess(h)
    \/ WaitResume
    \/ \E h \in Handles : Waited(h) /\ DestroyProcess(h)
    \/ \E c \in Pids : ChildEchoRead(c)
    \/ \E c \in Pids : ChildEchoWrite(c)
    \/ \E c \in Pids : ChildEchoEof(c)

\* The child is scheduled, blocked calls return when they can, and the caller
\* goes on reading while something it wrote has not come back.
SpecEcho ==
    /\ Init /\ [][NextEcho]_vars
    /\ WF_vars(\E c \in Pids : PosixChildExec(c))
    /\ WF_vars(\E c \in Pids : ChildEchoRead(c))
    /\ WF_vars(\E c \in Pids : ChildEchoWrite(c))
    /\ WF_vars(\E c \in Pids : ChildEchoEof(c))
    /\ WF_vars(WriteResume)
    /\ WF_vars(ReadResume)
    /\ WF_vars(WaitResume)
    /\ WF_vars(ParentReads)

\* test_stdin_to_stdout in the order it is written: one SDL_WriteIO of the whole
\* text, and only when that has returned the loop of SDL_ReadIO. The text has up to
\* one byte more than the stdin pipe, the child's buffer and the stdout pipe hold.
MaxText == 3 * PipeCap + 1

WriteText(h) ==
    /\ Idle
    /\ proc[h].live
    /\ "stdin" \in proc[h].props
    /\ wlog[h] = <<>>
    /\ \E n \in 1..MaxText : WriteStep(h, n, 0)
    /\ UNCHANGED <<platform, faults, fdt, proc, child, rlog>>

NextOrder ==
    \/ NoLiveHandle /\ PosixCreateProcess(EchoLaunch)
    \/ NoLiveHandle /\ WinCreateProcess(EchoLaunch)
    \/ \E c \in Pids : PosixChildExec(c)
    \/ \E h \in Handles : WriteText(h)
    \/ WriteResume
    \/ ParentReads
    \/ ReadResume
    \/ \E c \in Pids : ChildEchoRead(c)
    \/ \E c \in Pids : ChildEchoWrite(c)

\* The child is scheduled, the caller makes its calls, and a blocked call returns
\* when it can.
SpecOrder ==
    /\ Init /\ [][NextOrder]_vars
    /\ WF_vars(\E c \in Pids : PosixChildExec(c))
    /\ WF_vars(\E c \in Pids : ChildEchoRead(c))
    /\ WF_vars(\E c \in Pids : ChildEchoWrite(c))
    /\ WF_vars(\E h \in Handles : WriteText(h))
    /\ WF_vars(WriteResume)
    /\ WF_vars(ParentReads)
    /\ WF_vars(ReadResume)

\* ------------------------------------------------------------- properties
\* No process table entry refers to pipe p, and the caller has no descriptor of it.
PipeGone(p) ==
    /\ ~HoldsEnd(fdt, p, "r") /\ ~HoldsEnd(fdt, p, "w")
    /\ \A c \in Pids : p \notin ChildPipes(child[c])
ParentHoldsNone(p) == ~HoldsEnd(fdt, p, "r") /\ ~HoldsEnd(fdt, p, "w")

\* C1: SDL_CreateProcess with an args[0] that names no executable returns no
\* handle, and when it has returned no child of that call exists and every pipe end
\* the call created is closed.
C1_MissingExecutableFails ==
    (last.op = "create" /\ last.args = "missing") =>
        /\ last.ret = 0
        /\ last.pid = 0
        /\ \A p \in last.created : PipeGone(p)

\* C2: once SDL_WaitProcess has returned 1 for a handle, the next SDL_WaitProcess
\* on that handle, blocking or not, returns 1 again: not -1, and it does not block.
C2_WaitAgainReturnsOne ==
    [][(last.op = "wait" /\ last.ret = 1) =>
          /\ (last'.op = "wait" /\ last'.h = last.h) => last'.ret = 1
          /\ ~(blocked'.op = "wait" /\ blocked'.h = last.h)]_vars

\* C3: POSIX. When SDL_CreateProcess fails after it created at least one pipe (a
\* later pipe() or fork() failed), both ends of every pipe it created are closed
\* when it returns, and no process holds an end of them: no child exists.
C3_PosixRollback ==
    (platform = "posix" /\ last.op = "create" /\ last.ret = 0 /\ last.created # {}) =>
        /\ last.pid = 0
        /\ \A p \in last.created : PipeGone(p)

C3_Witness ==
    /\ platform = "posix" /\ last.op = "create" /\ last.ret = 0
    /\ Cardinality(last.created) >= 2
    /\ Len(last.closes) >= 4

\* C4: Windows. On every failure path of SDL_CreateProcess taken after a pipe was
\* created, the read end and the write end of every pipe the call created are
\* closed when failure is returned.
C4_WinRollback ==
    (platform = "windows" /\ last.op = "create" /\ last.ret = 0 /\ last.created # {}) =>
        \A p \in last.created : ParentHoldsNone(p)

\* C5: POSIX. Closing a stream adapter releases its parent-side descriptor exactly
\* once: the first close calls close() on that descriptor and succeeds; a second
\* invocation of the same close returns failure and calls close() on nothing.
C5_PosixCloseOnce ==
    (platform = "posix" /\ last.op = "close") =>
        /\ last.was = "open" =>
              /\ last.ret = 1
              /\ Len(last.closes) = 1
              /\ last.closes[1] \in PipeFds
              /\ ~IsOpen(fdt, last.closes[1])
        /\ last.was = "closed" => (last.ret = 0 /\ last.err /\ last.closes = <<>>)
        /\ PosixParentFd(proc[last.h], last.stream) = InvalidFd

C5_Witness ==
    /\ platform = "posix" /\ last.op = "close" /\ last.was = "closed"
    /\ last.ret = 0

\* C6: SDL_WaitProcess(block = false) on a child that is still running returns 0,
\* does not block and leaves the child as it was; a wait on that handle once the
\* child has exited by itself returns 1 with the code the child exited with.
C6_PollLeavesChild ==
    /\ [][\A h \in Handles :
            (/\ WaitProcess(h)
             /\ last'.op = "wait" /\ ~last'.block
             /\ child[proc[h].pid].st \in {"forked", "running"})
            => (last'.ret = 0 /\ child' = child /\ blocked' = NoCall /\ ~last'.stored)]_vars
    /\ [](last.op = "wait" /\ last.was = "zombie"
           /\ proc[last.h].launch.args \in {"exit", "echo"} /\ last.status = "exit"
           => last.ret = 1 /\ last.code = proc[last.h].launch.code)

\* C7: with STDIN and STDOUT redirected to a child that copies its stdin to its
\* stdout, what the caller has read from the stdout adapter is at every moment a
\* prefix of what it wrote to the stdin adapter, and once the caller has written
\* its n bytes and closed the adapter it eventually has read exactly those n bytes.
IsPrefix(a, b) == Len(a) <= Len(b) /\ \A i \in 1..Len(a) : a[i] = b[i]
DoneWriting(h, n) ==
    /\ proc[h].live /\ proc[h].launch = EchoLaunch
    /\ "stdin" \notin proc[h].props /\ Len(wlog[h]) = n
C7_EchoInOrder ==
    /\ [](\A h \in Handles : IsPrefix(rlog[h], wlog[h]))
    /\ \A h \in Handles, n \in 0..MaxBytes :
          DoneWriting(h, n) ~> (rlog[h] = wlog[h] /\ Len(rlog[h]) = n)

C7_Witness ==
    \E h \in Handles :
        /\ DoneWriting(h, MaxBytes) /\ rlog[h] = wlog[h]
        /\ last.op = "read" /\ last.n > 0

\* C8: when the caller closes the stdin adapter of a child that exits with code 0
\* once its stdin is at end-of-file, the child eventually sees end-of-file and
\* ends, and the SDL_WaitProcess(block = true) that follows returns.
StdinClosed(h) ==
    /\ proc[h].live /\ proc[h].launch = EchoLaunch
    /\ "stdin" \in proc[h].ios \ proc[h].props
ChildRuns(h) == proc[h].live /\ child[proc[h].pid].st \in {"forked", "running"}
C8_CloseStdinEndsChild ==
    \A h \in Handles :
        /\ StdinClosed(h) ~> ~ChildRuns(h)
        /\ (StdinClosed(h) /\ blocked.op = "wait" /\ blocked.h = h)
              ~> (last.op = "wait" /\ last.h = h /\ last.ret = 1 /\ last.code = 0)

\* C9: after SDL_KillProcess(force = true) has returned success on a running
\* child, SDL_WaitProcess(block = true) on that handle returns, with 1, and what
\* it reports is the status of a child that has ended.
C9_KillThenWait ==
    /\ [][\A h \in Handles :
            (proc[h].killed /\ last'.op = "wait" /\ last'.h = h /\ last'.block)
            => (/\ last'.ret = 1 /\ last'.stored
                /\ last'.was = "zombie"
                /\ last'.status \in {"exit", "signal"}
                /\ last'.status = "signal" => last'.code = SIGKILL)]_vars
    /\ \A h \in Handles :
          (blocked.op = "wait" /\ blocked.h = h /\ proc[h].killed)
              ~> (last.op = "wait" /\ last.h = h /\ last.ret = 1)

C9_Witness ==
    /\ last.op = "wait" /\ last.block /\ last.ret = 1
    /\ last.status = "signal" /\ last.code = SIGKILL

\* C10: a child launched while an earlier handle still has open stream adapters
\* holds no end of a pipe of that earlier handle (so that closing the earlier
\* handle's stdin adapter leaves its pipe without a writer).
HandlePipes(h) ==
    {Entry(PosixParentFd(proc[h], s)).pipe : s \in proc[h].props} \ {0}
C10_NoForeignPipeEnds ==
    \A h \in Handles, c \in Pids :
        (proc[h].live /\ c # proc[h].pid /\ child[c].st = "running")
            => HandlePipes(h) \cap ChildPipes(child[c]) = {}

\* C11: when SDL_CreateProcess has returned a handle, the caller's descriptor table
\* holds, of every pipe the call created, exactly the parent-side end (the write
\* end of the stdin pipe, the read end of the stdout and stderr pipes), and that
\* is the descriptor the handle records.
ParentSide(s) == IF s = "stdin" THEN "w" ELSE "r"
OwnPipeStreams(flags) ==
    {s \in Streams : HasFlag(flags, StreamFlag(s)) /\ ~(s = "stderr" /\ ErrToOut(flags))}
C11_ParentKeepsOwnEnds ==
    (last.op = "create" /\ last.ret # 0) =>
        LET h == last.h
            kept == {PosixParentFd(proc[h], s) : s \in OwnPipeStreams(last.flags)}
        IN  /\ \A f \in FdNum : fdt[f].pipe \in last.created => f \in kept
            /\ \A s \in OwnPipeStreams(last.flags) :
                  /\ Entry(PosixParentFd(proc[h], s)).end = ParentSide(s)
                  /\ Entry(PosixParentFd(proc[h], s)).pipe \in last.created
            /\ Cardinality(last.created) = Cardinality(OwnPipeStreams(last.flags))
            /\ Cardinality(kept) = Cardinality(last.created)

C11_Witness ==
    /\ last.op = "create" /\ last.ret # 0
    /\ Cardinality(last.created) = 3
    /\ Len(last.closes) = 3

\* C12: POSIX. A child that has reached exec holds the ends of the pipes created
\* for it only as descriptors 0, 1 and 2: the descriptors pipe() gave, which it
\* inherited, are closed.
C12_ChildHoldsOnlyStd ==
    \A c \in Pids :
        (platform = "posix" /\ child[c].st = "running") =>
            \A e \in child[c].extra : e.pipe \notin child[c].own

\* C13: POSIX. A forked child whose exec fails, and which no signal was sent to,
\* ends by exit with a non-zero code (not by a signal), with env null and non-null.
C13_ExecFailureExits ==
    [][\A c \in Pids :
          (/\ platform = "posix"
           /\ child[c].st = "forked" /\ child[c].prog \in {"missing", "empty"}
           /\ child[c].sig = 0
           /\ child'[c].st = "zombie")
          => (child'[c].status.kind = "exit" /\ child'[c].status.val # 0)]_vars

\* C14: when copying (POSIX: dupstrlist) or joining (Windows: join_arguments,
\* join_env) the argument or environment list fails for lack of memory, the call
\* returns no handle and has created no child.
MemoryFails(L) ==
    \/ platform = "posix" /\ L.fail = "dupstrlist"
    \/ platform = "windows" /\ L.fail = "join"
C14_NoChildOnListFailure ==
    \A h \in Handles : proc[h].live => ~MemoryFails(proc[h].launch)

\* C15: SDL_CreateProcess with an empty argument list returns no handle, and has
\* created no pipe and no process and written to no buffer.
C15_EmptyArgsRejected ==
    (last.op = "create" /\ last.args = "empty") =>
        /\ last.ret = 0 /\ last.err
        /\ last.created = {}
        /\ last.pid = 0
        /\ ~last.oob

\* C16: at every moment of a handle's life its property bag holds a stream entry
\* only for a stream whose redirection flag was given to SDL_CreateProcess; a
\* handle created with no redirection flag has no stream entry.
C16_PropsOnlyRequested ==
    \A h \in Handles :
        proc[h].live =>
            /\ proc[h].flags = proc[h].launch.flags
            /\ \A s \in proc[h].props : HasFlag(proc[h].launch.flags, StreamFlag(s))
            /\ proc[h].launch.flags = F_NONE => proc[h].props = {}

C16_Witness ==
    \E h \in Handles :
        /\ proc[h].live /\ proc[h].launch.flags = F_NONE /\ proc[h].props = {}
        /\ last.op = "wait" /\ last.h = h /\ last.ret = 1

\* C17: a child that ends by returning c from main (no signal was sent to it)
\* leaves the exit status c; SDL_WaitProcess(block = true) on its handle, while
\* that status is unreaped, returns 1 and stores c; and such a wait that has
\* blocked eventually returns 1.
ExitedUnreaped(h) ==
    /\ proc[h].live
    /\ child[proc[h].pid].st = "zombie"
    /\ child[proc[h].pid].status.kind = "exit"
C17_BlockingWaitGivesCode ==
    /\ [][\A h \in Handles :
            (/\ proc[h].live /\ proc[h].launch.args \in {"exit", "echo"}
             /\ child[proc[h].pid].st = "running" /\ child[proc[h].pid].sig = 0
             /\ child'[proc[h].pid].st = "zombie"
             /\ child'[proc[h].pid].status.kind = "exit")
            => child'[proc[h].pid].status.val = proc[h].launch.code]_vars
    /\ [][\A h \in Handles :
            (ExitedUnreaped(h) /\ last'.op = "wait" /\ last'.h = h /\ last'.block)
            => (/\ last'.ret = 1 /\ last'.stored
                /\ last'.code = child[proc[h].pid].status.val)]_vars
    /\ \A h \in Handles :
          (blocked.op = "wait" /\ blocked.h = h /\ ExitedUnreaped(h))
              ~> (last.op = "wait" /\ last.h = h /\ last.ret = 1)

C17_Witness ==
    /\ last.op = "wait" /\ last.block /\ last.ret = 1 /\ last.stored
    /\ last.was = "zombie" /\ last.status = "exit" /\ last.code = SIGKILL
    /\ proc[last.h].launch.args = "exit"

\* C18: what SDL_WaitProcess reports (its return value and the stored code) for a
\* child ended by signal k differs from what it reports for a child that exited
\* with code k.
Ended(status) == [NoChild EXCEPT !.st = "zombie", !.status = status]
Reported(c) ==
    <<IF platform = "posix" THEN PosixWaitRet(c) ELSE WinWaitRet(c), WaitCode(c)>>
C18_SignalDiffersFromExit ==
    (last.op = "wait" /\ last.ret = 1 /\ last.status = "signal") =>
        <<last.ret, last.code>> # Reported(Ended(Exited(last.code)))

\* C19: SDL_DestroyProcess calls close once for each stream adapter of the handle
\* that is still open and for nothing else, no descriptor twice, and when it has
\* returned every parent-side pipe end the handle had open is closed.
NoRepeat(q) == \A i, j \in 1..Len(q) : q[i] = q[j] => i = j
OpenParentEnds(h) ==
    {s \in OwnPipeStreams(proc[h].flags) :
        Entry(PosixParentFd(proc[h], s)).end = ParentSide(s)}
C19_DestroyClosesOpenAdapters ==
    [][\A h \in Handles :
          (proc[h].live /\ last'.op = "destroy" /\ last'.h = h) =>
              /\ Len(last'.closes) = Cardinality(proc[h].props)
              /\ NoRepeat(last'.closes)
              /\ \A s \in proc[h].props : \E i \in 1..Len(last'.closes) :
                     last'.closes[i] = PosixParentFd(proc[h], s)
              /\ \A s \in OpenParentEnds(h) : fdt'[PosixParentFd(proc[h], s)] = NoFd]_vars

\* C20: when SDL_DestroyProcess has returned for a handle whose child had ended,
\* the process table holds no unreaped entry for that child.
C20_DestroyReaps ==
    (last.op = "destroy" /\ last.was = "zombie") => child[last.pid].st # "zombie"

\* C21: closing one stream adapter removes its entry from the handle's property
\* bag, and leaves, for every other stream of the handle, the recorded descriptor,
\* what that descriptor denotes, and the property-bag entry as they were.
C21_CloseLeavesOthers ==
    [][\A h \in Handles, s \in Streams :
          (proc[h].live /\ last'.op = "close" /\ last'.h = h /\ last'.stream = s) =>
              /\ s \notin proc'[h].props
              /\ \A o \in Streams \ {s} :
                    /\ PosixParentFd(proc'[h], o) = PosixParentFd(proc[h], o)
                    /\ (o \in proc'[h].props) = (o \in proc[h].props)
                    /\ PosixParentFd(proc[h], o) \in PipeFds =>
                          fdt'[PosixParentFd(proc[h], o)] = fdt[PosixParentFd(proc[h], o)]]_vars

C21_Witness ==
    /\ last.op = "close" /\ last.ret = 1 /\ last.stream = "stderr"
    /\ proc[last.h].props = {"stdin", "stdout"}
    /\ Entry(proc[last.h].stdin_pipe.w).end = "w"
    /\ Entry(proc[last.h].stdout_pipe.r).end = "r"

\* C22: a read on the stdin adapter and a write on the stdout or stderr adapter
\* return 0 bytes with status error and an error set, and no pipe, descriptor,
\* or log of transferred bytes changes: no read or write happened.
C22_UnsupportedDoesNoIO ==
    [][(last'.op \in {"read", "write"} /\ Unsupported(last'.stream, last'.op)) =>
          /\ last'.n = 0 /\ last'.status = "error" /\ last'.err
          /\ pipebuf' = pipebuf /\ fdt' = fdt /\ child' = child
          /\ wlog' = wlog /\ rlog' = rlog
          /\ blocked' = NoCall /\ parent' = "running"]_vars

C22_Witness ==
    /\ last.op = "write" /\ last.stream = "stdout" /\ last.status = "error"
    /\ \E p \in PipeIds : pipebuf[p] # <<>>

\* C25: SDL_KillProcess, SDL_WaitProcess and SDL_GetProcessProperties on a null
\* handle return false (0), -1 and the invalid properties id (0), with an error
\* set.
InvalidPropertiesId == 0
C25_NullHandleFails ==
    (last.was = "null") =>
        /\ last.err
        /\ last.op = "kill" => last.ret = 0
        /\ last.op = "wait" => last.ret = -1
        /\ last.op = "props" => last.ret = InvalidPropertiesId

\* C23: once an SDL_WaitProcess on a handle has returned 1, no later
\* SDL_WaitProcess on that handle returns 0, whatever other processes the caller
\* launches in between.
WaitReturned(h, r) == last.op = "wait" /\ last.h = h /\ last.ret = r
C23_ExitedStaysExited ==
    \A h \in Handles : [](WaitReturned(h, 1) => [](~WaitReturned(h, 0)))

\* C24: SDL_KillProcess on a handle whose child has already ended returns false
\* with an error set; it returns true only when the child was still running.
C24_KillExitedFails ==
    (last.op = "kill" /\ last.was # "null") =>
        /\ last.was \in {"zombie", "free"} => (last.ret = 0 /\ last.err)
        /\ last.ret = 1 => last.was \in {"forked", "running"}

\* C26: a call of SDL_CreateProcess with STDERR and STDERR_TO_STDOUT creates no
\* pipe for stderr, registers no stderr entry, and closes nothing but ends of the
\* pipes it created (at most both ends of each, on rollback); a child it starts
\* has the write end of the stdout pipe as its standard error.
C26_MergedStderrHasNoPipe ==
    /\ (last.op = "create" /\ last.flags = F_MERGE) =>
          /\ Cardinality(last.created) <= 1
          /\ Len(last.closes) <= 2 * Cardinality(last.created)
          /\ last.ret # 0 => "stderr" \notin proc[last.h].props
    /\ \A h \in Handles :
          (proc[h].live /\ proc[h].flags = F_MERGE
             /\ child[proc[h].pid].st = "running" /\ child[proc[h].pid].own # {}) =>
                /\ child[proc[h].pid].fdt[STDERR_FILENO].end = "w"
                /\ child[proc[h].pid].fdt[STDERR_FILENO].pipe \in child[proc[h].pid].own
                /\ child[proc[h].pid].fdt[STDERR_FILENO].pipe
                      = child[proc[h].pid].fdt[STDOUT_FILENO].pipe

\* C27: when the allocation of the handle or of its property bag fails,
\* SDL_CreateProcess returns failure and has created no pipe and no process; and
\* no call that returns failure has changed the process table: no child of a
\* failed call exists.
AllocationFails(L) == L.fail \in {"malloc", "props"}
C27_AllocateFirst ==
    /\ [][\A L \in ArgLaunches :
            (AllocationFails(L) /\ (PosixCreateProcess(L) \/ WinCreateProcess(L))) =>
                /\ last'.ret = 0 /\ last'.err
                /\ last'.created = {} /\ last'.pid = 0
                /\ fdt' = fdt /\ child' = child]_vars
    /\ [][(last'.op = "create" /\ last'.ret = 0) => (last'.pid = 0 /\ child' = child)]_vars

C27_Witness ==
    /\ last.op = "create" /\ last.ret = 0 /\ last.flags = F_ALL
    /\ last.created = {} /\ fdt = StdTable

\* C28: for a non-empty argument list join_arguments yields the arguments in order
\* with one space between them and none at the end, an argument that contains a
\* space, tab, double quote or backslash being put between double quotes with a
\* backslash before each of its double quotes and backslashes, and any other
\* argument being copied unchanged.
RECURSIVE EscapeQuoted(_)
EscapeQuoted(a) ==
    IF a = <<>> THEN <<>>
    ELSE (IF Head(a) \in {QUOTE, BACKSLASH} THEN <<BACKSLASH, Head(a)>> ELSE <<Head(a)>>)
         \o EscapeQuoted(Tail(a))
QuotedArg(a) ==
    IF \E i \in 1..Len(a) : a[i] \in {SPACE, TAB, QUOTE, BACKSLASH}
    THEN <<QUOTE>> \o EscapeQuoted(a) \o <<QUOTE>>
    ELSE a
RECURSIVE QuotedLine(_)
QuotedLine(args) ==
    IF Len(args) = 1 THEN QuotedArg(args[1])
    ELSE QuotedArg(Head(args)) \o <<SPACE>> \o QuotedLine(Tail(args))
C28_JoinArgumentsQuotes ==
    (last.op = "join_arguments" /\ last.was = "returned" /\ last.ok) =>
        last.out = PointerTo(QuotedLine(last.args.at))

\* C29: for a non-null environment list, the empty list included, join_env yields
\* every entry in order followed by one NUL byte and a block that ends with two
\* NUL bytes; for a null environment it yields a null block and succeeds.
EndsWithTwoNul(b) == Len(b) >= 2 /\ b[Len(b)] = NUL /\ b[Len(b) - 1] = NUL
C29_JoinEnvBlock ==
    (last.op = "join_env" /\ last.was = "returned") =>
        IF last.args.null THEN last.ok /\ last.out.null
        ELSE last.ok =>
                /\ ~last.out.null
                /\ SubSeq(last.out.at, 1, Len(EnvBytes(last.args.at))) = EnvBytes(last.args.at)
                /\ EndsWithTwoNul(last.out.at)

\* C30: on Windows, when SDL_CreateProcess calls CreateProcessA, every pipe end the
\* parent keeps (the write end of stdin, the read ends of stdout and stderr) is not
\* inheritable and every end meant for the child is inheritable; so the parent does
\* not get the flag back afterwards and the child that is created holds none of
\* the parent's ends.
ParentEnds(ps) == {ps.in.w, ps.out.r, ps.err.r} \ {NullHandle}
ChildEnds(ps) == {ps.in.r, ps.out.w, ps.err.w} \ {NullHandle}
CallsCreateProcessA(L, ps) == ~WinFailsEarly(L) /\ FreeHandles # {} /\ ps.ok
EndsAtCallOk(ps) ==
    /\ \A f \in ParentEnds(ps) : ps.t[f].end # "none" /\ ~ps.t[f].inh
    /\ \A f \in ChildEnds(ps) : ps.t[f].end # "none" /\ ps.t[f].inh
C30_ParentEndsNotInheritable ==
    [][\A L \in ArgLaunches :
         (WinCreateProcess(L) /\ CallsCreateProcessA(L, WinPipes(L.flags, L.fail))) =>
             /\ EndsAtCallOk(WinPipes(L.flags, L.fail))
             /\ \A f \in ParentEnds(WinPipes(L.flags, L.fail)) : ~fdt'[f].inh
             /\ last'.ret # 0 =>
                   \A f \in ParentEnds(WinPipes(L.flags, L.fail)) :
                       [pipe |-> fdt'[f].pipe, end |-> fdt'[f].end]
                           \notin child'[last'.pid].extra]_vars

C30_Witness ==
    /\ platform = "windows" /\ last.op = "create" /\ last.ret # 0 /\ last.flags = F_ALL
    /\ Cardinality(last.created) = 3
    /\ proc[last.h].live
    /\ ~fdt[proc[last.h].stdin_pipe.w].inh
    /\ ~fdt[proc[last.h].stdout_pipe.r].inh
    /\ ~fdt[proc[last.h].stderr_pipe.r].inh

\* C31: on Windows a wait with block = false on a child that is still running
\* returns 0 and stores nothing through returncode, and a wait returns 1 only for
\* a child that has ended.
StillRunning(st) == st \in {"forked", "running"}
C31_WinPollRunningReturnsZero ==
    (platform = "windows" /\ last.op = "wait") =>
        /\ (~last.block /\ StillRunning(last.was)) => (last.ret = 0 /\ ~last.stored)
        /\ last.ret = 1 => ~StillRunning(last.was)

\* C32: on Windows, once the close of a stream adapter has released its pipe
\* handle, a further invocation of that close returns failure and makes no call
\* of CloseHandle.
C32_WinSecondCloseFails ==
    (platform = "windows" /\ last.op = "close" /\ last.was = "closed") =>
        (last.ret = 0 /\ last.err /\ last.closes = <<>>)

\* C33: SDL_DestroyProcess on a null handle returns to its caller without having
\* read a field of the handle.
C33_DestroyNullReadsNothing ==
    (last.op = "destroy" /\ last.was = "null") => (~last.oob /\ parent = "running")

\* C34: on POSIX SDL_KillProcess sends a signal to no process other than the child
\* its handle was created for, also after SDL_WaitProcess has reaped that child and
\* the process id has gone to another process: no process that is not a child of
\* the caller has a signal of the caller pending.
C34_KillHitsOnlyOwnChild ==
    platform = "posix" => \A c \in Pids : child[c].st = "foreign" => child[c].sig = 0

\* C35: on POSIX a write to the stdin adapter when the child has ended and the
\* pipe has no reader left returns to the caller with 0 bytes written and status
\* error; no write ends the calling process or raises a signal in it.
StdinPipe(h) == Entry(proc[h].stdin_pipe.w).pipe
C35_WriteToEndedChildReturns ==
    /\ [](platform = "posix" => (last.op # "sigpipe" /\ parent = "running"))
    /\ [][\A h \in Handles :
            (platform = "posix" /\ WriteIO(h) /\ ~HasReader(StdinPipe(h))) =>
                (last'.op = "write" /\ last'.n = 0 /\ last'.status = "error")]_vars

\* C36: a caller that writes all its n bytes to the stdin adapter of the echoing
\* child before it reads from the stdout adapter completes the write and then
\* reads everything back, whatever n is, also when n exceeds what the two pipes
\* hold: a write that has begun returns, and what was written is read.
C36_WriteAllThenReadCompletes ==
    \A h \in Handles :
        /\ (blocked.op = "write" /\ blocked.h = h) ~> (blocked = NoCall)
        /\ (proc[h].live /\ wlog[h] # <<>>) ~> (Idle /\ rlog[h] = wlog[h])

\* C37: whatever SDL_CreateProcess calls (successful or failed), adapter closes
\* and SDL_DestroyProcess calls are made, no call closes the same descriptor or
\* handle value twice, every value a call closes is a pipe end the library
\* created, and a pipe end closed by an earlier call is not closed again.
ClosesOwnEndsOnce(cl) ==
    /\ NoRepeat(cl)
    /\ \A i \in 1..Len(cl) : cl[i] \in PipeFds
C37_EachEndClosedOnce ==
    /\ [](ClosesOwnEndsOnce(last.closes))
    /\ [][(last'.op \in {"close", "destroy"}) =>
            \A i \in 1..Len(last'.closes) :
                last'.closes[i] \in PipeFds => IsOpen(fdt, last'.closes[i])]_vars

\* C38: on every path where SDL_CreateProcess returns failure after it created the
\* property bag, the bag is destroyed and the handle storage is freed before the
\* call returns: a failed launch leaves nothing it allocated behind.
C38_FailedLaunchFreesAll ==
    (last.op = "create" /\ last.ret = 0) => last.leaked = {}

\* C39: for every handle SDL_CreateProcess has returned and every redirected stream
\* that has a pipe of its own, the property bag holds the stream's adapter as long
\* as the parent-side end of that pipe is open, also when creating an adapter
\* failed during SDL_CreateProcess; so the streams SDL_DestroyProcess finds in the
\* bag cover every open parent-side end.
C39_OpenEndHasAdapter ==
    \A h \in Handles : proc[h].live => OpenParentEnds(h) \subseteq proc[h].props

====
